---- MODULE Spec2Model ----
(***************************************************************************)
(* gpscan: recursive directory scan streamed as a GrandPerspective XML     *)
(* scan dump.  The model covers run (src/src/filesystem.rs) and the three  *)
(* directory walkers the repository contains:                              *)
(*   "scan"       src/src/scan.rs        (two-pass: files, then folders)   *)
(*   "filesystem" src/src/filesystem.rs  (single pass over sorted entries) *)
(*   "main"       src/src/main.rs        (single pass, no filters)         *)
(* The file system is an input: every metadata read and directory listing  *)
(* is drawn from a small set at the step that performs the read.           *)
(* Strings are sequences of code points, file names sequences of bytes.    *)
(***************************************************************************)
EXTENDS Integers, Sequences, FiniteSets, TLC

VARIABLES impl, options, pc, root_dev, visited_inodes, stack, out, nodes,
          last, obs, call, ret

vars == <<impl, options, pc, root_dev, visited_inodes, stack, out, nodes,
          last, obs, call, ret>>

(* ------------------------------ bounds -------------------------------- *)
\* Total number of directory entries the scanned tree may hold.
MaxNodes == 4
\* Depth (below the root) of the deepest directory of the scanned tree.
MaxDepth == 1

(* --------------------------- input domains ---------------------------- *)
Impls == {"scan", "filesystem", "main"}
Devs == {1, 2}
\* The device the root directory is on (device ids are interchangeable).
RootDevs == {1}
Inodes == {0, 1, 2}
\* Raw file names (bytes): "a", "b", "c" and two names that are not UTF-8.
Names == {<<97>>, <<98>>, <<99>>, <<254>>, <<255>>}
\* The sets of names a directory may hold: the walker only compares names,
\* so one set stands for each pattern of less/equal among its names.
NameSets ==
    { {}, {<<97>>}, {<<97>>, <<98>>}, {<<97>>, <<98>>, <<99>>},
      {<<254>>, <<255>>} }
\* The directory argument of the command line, the string "t/r".
directory == <<116, 47, 114>>
\* Path::new(directory), as path components.
RootPath == <<(<<116>>), (<<114>>)>>
\* (logical length, allocated 512-byte blocks) of the regular files.
SizeClasses == {<<0, 0>>, <<10, 0>>, <<10, 8>>}
\* The size of the file behind each inode: hard links to one inode share it.
SizeOf(i) == IF i = 0 THEN <<0, 0>> ELSE IF i = 1 THEN <<10, 8>> ELSE <<10, 0>>

Meta(ok, kind, target, ino, len, blocks) ==
    [ok |-> ok, kind |-> kind, target |-> target, ino |-> ino,
     len |-> len, blocks |-> blocks]

\* Results of fs::symlink_metadata on a directory entry.
FileMetas == {Meta(TRUE, "file", "none", i, SizeOf(i)[1], SizeOf(i)[2]) : i \in Inodes}
SymlinkMetas == {Meta(TRUE, "symlink", t, 0, 0, 0) : t \in {"file", "dir", "none"}}
DirMeta == Meta(TRUE, "dir", "none", 0, 0, 0)
OtherMeta == Meta(TRUE, "other", "none", 0, 0, 0)
FailedMeta == Meta(FALSE, "none", "none", 0, 0, 0)

\* main.rs reads the length of a regular file only.
FileMetasMain == {Meta(TRUE, "file", "none", 0, s[1], 0) : s \in SizeClasses}

EntryMetas(depth) ==
    (IF impl = "main" THEN FileMetasMain ELSE FileMetas)
        \cup SymlinkMetas \cup {OtherMeta, FailedMeta}
        \cup (IF depth < MaxDepth THEN {DirMeta} ELSE {})

\* The possible results of fs::read_dir with at most k entries: the names
\* of one set of NameSets in any order the file system may list them.
\* main.rs keeps the listing order, and is given at most two names a listing.
RECURSIVE Orders(_)
Orders(S) ==
    IF S = {} THEN {<<>>}
    ELSE UNION {{Append(l, n) : l \in Orders(S \ {n})} : n \in S}

ListingSets(k) ==
    {T \in NameSets : Cardinality(T) <= k /\ (impl = "main" => Cardinality(T) <= 2)}

Listings(k) == UNION {Orders(S) : S \in ListingSets(k)}

(* ------------------------------ strings ------------------------------- *)
\* OsStr::to_string_lossy: every byte that is not valid UTF-8 becomes U+FFFD.
to_string_lossy(n) == [i \in 1..Len(n) |-> IF n[i] < 128 THEN n[i] ELSE 65533]

\* str::cmp: lexicographic order of the code points.
RECURSIVE cmp(_, _)
cmp(a, b) ==
    IF a = <<>> /\ b = <<>> THEN "Equal"
    ELSE IF a = <<>> THEN "Less"
    ELSE IF b = <<>> THEN "Greater"
    ELSE IF Head(a) < Head(b) THEN "Less"
    ELSE IF Head(a) > Head(b) THEN "Greater"
    ELSE cmp(Tail(a), Tail(b))

\* The comparator of entries.sort_by.
entry_cmp(a, b) == cmp(to_string_lossy(a), to_string_lossy(b))

\* Vec::sort_by is a stable sort: equal elements keep their listing order.
RECURSIVE InsertSorted(_, _)
InsertSorted(s, e) ==
    IF s = <<>> THEN <<e>>
    ELSE IF entry_cmp(e, Head(s)) = "Less" THEN <<e>> \o s
    ELSE <<Head(s)>> \o InsertSorted(Tail(s), e)

RECURSIVE sort_by(_)
sort_by(l) ==
    IF l = <<>> THEN <<>>
    ELSE InsertSorted(sort_by(SubSeq(l, 1, Len(l) - 1)), l[Len(l)])

\* Path::display for a path given by its components: joined by '/'.
RECURSIVE display(_)
display(p) ==
    IF p = <<>> THEN <<>>
    ELSE IF Len(p) = 1 THEN to_string_lossy(p[1])
    ELSE to_string_lossy(p[1]) \o <<47>> \o display(Tail(p))

\* Path::file_name then to_string_lossy: the final path segment.
file_name(p) == to_string_lossy(p[Len(p)])

\* A display name that is the whole path for every directory.
dir_name_full_path(p, is_root) == display(p)

\* The display name of a directory.
dir_name(p, is_root) == IF is_root THEN display(p) ELSE file_name(p)

(* ---------------------- platform metadata adapter --------------------- *)
\* A size function that ignores the mode, as metadata.len() does.
len_only(m, apparent) == m.len

\* MetadataExtOps::file_size on Linux.
file_size(m, apparent) == IF apparent THEN m.len ELSE m.blocks * 512

(* ------------------------------ events -------------------------------- *)
\* path, n and ino are annotations naming the entry an event was written
\* for; they are not part of the written text.
DeclEvent(version) == [tag |-> "Decl", version |-> version]
RootStartEvent == [tag |-> "RootStart", appVersion |-> "4", formatVersion |-> "7"]
ScanInfoStartEvent(measure) == [tag |-> "ScanInfoStart", fileSizeMeasure |-> measure]
ScanInfoEndEvent == [tag |-> "ScanInfoEnd"]
RootEndEvent == [tag |-> "RootEnd"]
FolderStartEvent(p, is_root, n) ==
    [tag |-> "FolderStart", name |-> dir_name(p, is_root), path |-> p, n |-> n]
FolderEndEvent(p) == [tag |-> "FolderEnd", path |-> p]
FileEvent(p, size, ino) ==
    [tag |-> "File", name |-> file_name(p), size |-> size, path |-> p, ino |-> ino]

(* --------------------------- walker frames ---------------------------- *)
\* One frame per active call of traverse_directory_to_xml.
\* dev is the device id the walker of scan.rs and of filesystem.rs read for
\* the directory, the device of the files it holds.
Frame(p, is_root) ==
    [path |-> p, is_root |-> is_root, phase |-> "enter", entries |-> <<>>,
     file_entries |-> <<>>, dir_entries |-> <<>>, dev |-> 0]

top == stack[Len(stack)]
Depth(f) == Len(f.path) - Len(RootPath)

\* A walker that goes into the subdirectories before it writes the files.
AdvanceDirsFirst(f) ==
    IF f.phase = "classify" /\ f.entries = <<>> THEN
        IF f.dir_entries # <<>> THEN [f EXCEPT !.phase = "dirs"]
        ELSE IF f.file_entries # <<>> THEN [f EXCEPT !.phase = "files"]
        ELSE [f EXCEPT !.phase = "close"]
    ELSE IF f.phase = "dirs" /\ f.dir_entries = <<>> THEN
        IF f.file_entries # <<>> THEN [f EXCEPT !.phase = "files"]
        ELSE [f EXCEPT !.phase = "close"]
    ELSE IF f.phase = "files" /\ f.file_entries = <<>> THEN [f EXCEPT !.phase = "close"]
    ELSE IF f.phase = "loop" /\ f.entries = <<>> THEN [f EXCEPT !.phase = "close"]
    ELSE f

\* A loop that does not end when its last element is consumed.
AdvanceNever(f) == f

\* Position of a frame after a loop has consumed its last element.
Advance(f) ==
    IF f.phase = "classify" /\ f.entries = <<>> THEN
        IF f.file_entries # <<>> THEN [f EXCEPT !.phase = "files"]
        ELSE IF f.dir_entries # <<>> THEN [f EXCEPT !.phase = "dirs"]
        ELSE [f EXCEPT !.phase = "close"]
    ELSE IF f.phase = "files" /\ f.file_entries = <<>> THEN
        IF f.dir_entries # <<>> THEN [f EXCEPT !.phase = "dirs"]
        ELSE [f EXCEPT !.phase = "close"]
    ELSE IF f.phase = "dirs" /\ f.dir_entries = <<>> THEN [f EXCEPT !.phase = "close"]
    ELSE IF f.phase = "loop" /\ f.entries = <<>> THEN [f EXCEPT !.phase = "close"]
    ELSE f

Below == SubSeq(stack, 1, Len(stack) - 1)
SetTop(f) == Append(Below, f)

\* The callee returns Ok(()): its frame is dropped; when it was the root
\* call, run goes on to close the document.
Return ==
    /\ stack' = Below
    /\ pc' = IF Len(stack) = 1 THEN "close" ELSE pc

\* A failed write that leaves the frames of the walker in place.
WriteThenKeepFrames(evs, k, cont) ==
    IF k = Len(evs) THEN out' = out \o evs /\ cont
    ELSE /\ out' = out \o SubSeq(evs, 1, k)
         /\ pc' = "write_error"
         /\ stack' = stack

\* Writes the events evs in order; the first k succeed.  A failed write is
\* returned through every frame by `?` and ends run.
WriteThen(evs, k, cont) ==
    IF k = Len(evs) THEN out' = out \o evs /\ cont
    ELSE /\ out' = out \o SubSeq(evs, 1, k)
         /\ pc' = "write_error"
         /\ stack' = <<>>

(* ------------------------- observation monitor ------------------------ *)
\* The reads a scan of the tree  t/r/{a (10 bytes), b/ (empty), c/{a (0 bytes)}}
\* performs with the walker of scan.rs, in order.
ListObs(p, names) == [at |-> "list", path |-> p, names |-> names, meta |-> FailedMeta]
MetaObs(p, m) == [at |-> "meta", path |-> p, names |-> <<>>, meta |-> m]

ScenarioObs ==
    << ListObs(RootPath, <<(<<97>>), (<<98>>), (<<99>>)>>),
       MetaObs(Append(RootPath, <<97>>), Meta(TRUE, "file", "none", 1, 10, 8)),
       MetaObs(Append(RootPath, <<98>>), DirMeta),
       MetaObs(Append(RootPath, <<99>>), DirMeta),
       ListObs(Append(RootPath, <<98>>), <<>>),
       ListObs(Append(RootPath, <<99>>), <<(<<97>>)>>),
       MetaObs(Append(Append(RootPath, <<99>>), <<97>>), Meta(TRUE, "file", "none", 0, 0, 0)) >>

ObsOff == <<ListObs(<<>>, <<>>)>>

\* obs follows the reads as long as they are those of ScenarioObs.
Observe(o) ==
    IF obs # ObsOff /\ Len(obs) < Len(ScenarioObs) /\ ScenarioObs[Len(obs) + 1] = o
    THEN Append(obs, o)
    ELSE ObsOff

(* -------------------------------- run --------------------------------- *)
AllOptions ==
    [apparent_size : BOOLEAN, cross_mount_points : BOOLEAN,
     include_zero_files : BOOLEAN, include_empty_folders : BOOLEAN]

\* The option sets of the runs.  cross_mount_points, which the device check
\* alone reads, is set with the other options off.  apparent_size chooses
\* the number file_size returns: it is set with include_zero_files off,
\* where that number decides whether the file is written as well as the
\* size that is written.
OptionSets ==
    {o \in AllOptions :
        /\ o.cross_mount_points =>
              ~o.apparent_size /\ ~o.include_zero_files /\ ~o.include_empty_folders
        /\ o.apparent_size => ~o.include_zero_files}

NoLast == [op |-> "none"]
\* No function of the library is being called on its own.
NoCall == [fn |-> "none"]
NoRet == [done |-> FALSE]

Init ==
    /\ impl \in Impls
    /\ options \in OptionSets
    \* main.rs knows the --mounts flag only
    /\ impl = "main" =>
          /\ ~options.apparent_size
          /\ ~options.include_zero_files
          /\ ~options.include_empty_folders
    /\ pc = "start"
    /\ root_dev = 0
    /\ visited_inodes = {}
    /\ stack = <<>>
    /\ out = <<>>
    /\ nodes = 0
    /\ last = NoLast
    /\ obs = <<>>
    /\ call = NoCall
    /\ ret = NoRet

\* run up to the creation of the writer: the checks of the root path, the
\* device id of the root, the output handle.
StartupLast(exists, is_dir, meta_ok, open_ok) ==
    [op |-> "startup", exists |-> exists, is_dir |-> is_dir,
     meta_ok |-> meta_ok, open_ok |-> open_ok]

\* A start-up that goes on when the output file cannot be created.
StartupPcIgnoringOpen(exists, is_dir, meta_ok, open_ok) ==
    IF ~exists \/ ~is_dir THEN "exit1"
    ELSE IF ~meta_ok THEN "error"
    ELSE "header"

\* Where run is after its start-up: process::exit(1), an error returned by
\* `?`, or the writer ready for the header.
StartupPc(exists, is_dir, meta_ok, open_ok) ==
    IF ~exists \/ ~is_dir THEN "exit1"
    ELSE IF ~meta_ok \/ ~open_ok THEN "error"
    ELSE "header"

RunStartup ==
    /\ pc = "start"
    /\ \E exists \in BOOLEAN, is_dir \in BOOLEAN, meta_ok \in BOOLEAN,
          dev \in RootDevs, open_ok \in BOOLEAN :
          /\ is_dir => exists
          /\ pc' = StartupPc(exists, is_dir, meta_ok, open_ok)
          /\ root_dev' = IF exists /\ is_dir /\ meta_ok THEN dev ELSE root_dev
          /\ last' = StartupLast(exists, is_dir, meta_ok, open_ok)
    /\ UNCHANGED <<call, ret, impl, options, visited_inodes, stack, out, nodes, obs>>

\* The XML declaration version of filesystem.rs.
XML_VERSION == "1.0"
\* The XML declaration version of xml_output.rs, the module scan.rs uses.
xml_output_XML_VERSION == "1.1"

\* output_xml_header of xml_output.rs and of filesystem.rs; main.rs prints
\* the root start tag only.
HeaderEvents ==
    IF impl = "main" THEN <<RootStartEvent>>
    ELSE IF impl = "scan" THEN <<DeclEvent(xml_output_XML_VERSION), RootStartEvent>>
    ELSE <<DeclEvent(XML_VERSION), RootStartEvent>>

WriteHeader ==
    /\ pc = "header"
    /\ \E k \in 0..Len(HeaderEvents) :
          WriteThen(HeaderEvents, k, pc' = "scaninfo" /\ stack' = stack)
    /\ UNCHANGED <<call, ret, impl, options, root_dev, visited_inodes, nodes, last, obs>>

\* The fileSizeMeasure attribute run gives the ScanInfo element.
fileSizeMeasure == "physical"

\* The ScanInfo start tag, the fresh inode set and the call of the walker
\* on the root path.
WriteScanInfo ==
    /\ pc = "scaninfo"
    /\ \E k \in 0..1 :
          WriteThen(<<ScanInfoStartEvent(fileSizeMeasure)>>, k,
                    /\ pc' = "walk"
                    /\ stack' = <<Frame(RootPath, TRUE)>>)
    /\ visited_inodes' = {}
    /\ UNCHANGED <<call, ret, impl, options, root_dev, nodes, last, obs>>

\* The end tags of ScanInfo and of the root element.
FinishDocument ==
    /\ pc = "close"
    /\ \E k \in 0..2 :
          WriteThen(<<ScanInfoEndEvent, RootEndEvent>>, k, pc' = "done" /\ stack' = stack)
    /\ UNCHANGED <<call, ret, impl, options, root_dev, visited_inodes, nodes, last, obs>>

(* ----------------------- traverse_directory_to_xml -------------------- *)
\* The mount-boundary check at the head of the walker.
SkipForeign(dev) == ~options.cross_mount_points /\ dev # root_dev

\* An empty-folder check that ignores the option.
SkipEmptyIgnoringOption(entries) == entries = <<>>

\* An empty-folder check that has lost its is_empty test.
SkipWithoutIsEmpty(entries) == ~options.include_empty_folders

\* The empty-folder check of the walker.
SkipEmptyFolder(entries) == entries = <<>> /\ ~options.include_empty_folders

\* The order in which the walker goes through a listing.
OrderEntries(listing) == sort_by(listing)

\* The phase that follows the Folder start tag.
BodyPhase == IF impl = "scan" THEN "classify" ELSE "loop"

EnterLast(f, meta_ok, foreign, listed, list_ok, n) ==
    [op |-> "enter", path |-> f.path, is_root |-> f.is_root, meta_ok |-> meta_ok,
     foreign |-> foreign, listed |-> listed, list_ok |-> list_ok, n |-> n]

\* A skip that returns the error to the caller instead of Ok(()).
AbortDir(l) ==
    /\ pc' = "error"
    /\ stack' = <<>>
    /\ last' = l
    /\ obs' = ObsOff
    /\ UNCHANGED <<out, nodes>>

\* A skip that writes the Folder tags of the directory it gives up.
SkipDirWithFolder(l) ==
    /\ \E k \in 0..2 :
          WriteThen(<<FolderStartEvent(top.path, top.is_root, 0), FolderEndEvent(top.path)>>,
                    k, Return)
    /\ last' = l
    /\ obs' = ObsOff
    /\ UNCHANGED nodes

\* A skip: the call returns Ok(()) having written nothing.
SkipDir(l) ==
    /\ Return
    /\ last' = l
    /\ obs' = ObsOff
    /\ UNCHANGED <<out, nodes>>

\* The walker of scan.rs and of filesystem.rs from its entry to the Folder
\* start tag.  The device id read for the root is the one run has just read.
EnterDir ==
    /\ pc = "walk" /\ stack # <<>> /\ top.phase = "enter" /\ impl # "main"
    /\ \/ SkipDir(EnterLast(top, FALSE, FALSE, FALSE, FALSE, 0))
       \/ \E dev \in Devs :
            /\ top.is_root => dev = root_dev
            /\ IF SkipForeign(dev)
               THEN SkipDir(EnterLast(top, TRUE, dev # root_dev, FALSE, FALSE, 0))
               ELSE \/ SkipDir(EnterLast(top, TRUE, dev # root_dev, TRUE, FALSE, 0))
                    \/ \E listing \in Listings(MaxNodes - nodes) :
                         LET entries == OrderEntries(listing)
                             n == Len(listing)
                             l == EnterLast(top, TRUE, dev # root_dev, TRUE, TRUE, n)
                             o == ListObs(top.path, entries)
                         IN  IF SkipEmptyFolder(listing)
                             THEN /\ Return
                                  /\ last' = l
                                  /\ obs' = Observe(o)
                                  /\ UNCHANGED <<out, nodes>>
                             ELSE /\ \E k \in 0..1 :
                                       WriteThen(<<FolderStartEvent(top.path, top.is_root, n)>>, k,
                                                 /\ stack' = SetTop(Advance([top EXCEPT !.phase = BodyPhase,
                                                                                        !.entries = entries,
                                                                                        !.dev = dev]))
                                                 /\ pc' = pc)
                                  /\ nodes' = nodes + n
                                  /\ last' = l
                                  /\ obs' = Observe(o)
    /\ UNCHANGED <<call, ret, impl, options, root_dev, visited_inodes>>

\* The walker of main.rs from its entry to its loop: the device check only
\* logs, the Folder start tag is printed before the directory is listed, and
\* the entries are taken in the order the file system lists them.
EnterDirMain ==
    /\ pc = "walk" /\ stack # <<>> /\ top.phase = "enter" /\ impl = "main"
    /\ \/ SkipDir(EnterLast(top, FALSE, FALSE, FALSE, FALSE, 0))
       \/ \E dev \in Devs :
            /\ top.is_root => dev = root_dev
            /\ \/ /\ \E k \in 0..2 :
                       WriteThen(<<FolderStartEvent(top.path, top.is_root, 0),
                                   FolderEndEvent(top.path)>>, k, Return)
                  /\ last' = EnterLast(top, TRUE, dev # root_dev, TRUE, FALSE, 0)
                  /\ obs' = ObsOff
                  /\ nodes' = nodes
               \/ \E listing \in Listings(MaxNodes - nodes) :
                    /\ \E k \in 0..1 :
                         WriteThen(<<FolderStartEvent(top.path, top.is_root, Len(listing))>>, k,
                                   /\ stack' = SetTop(Advance([top EXCEPT !.phase = "loop",
                                                                          !.entries = listing]))
                                   /\ pc' = pc)
                    /\ nodes' = nodes + Len(listing)
                    /\ last' = EnterLast(top, TRUE, dev # root_dev, TRUE, TRUE, Len(listing))
                    /\ obs' = ObsOff
    /\ UNCHANGED <<call, ret, impl, options, root_dev, visited_inodes>>

\* The file type fs::metadata would give: that of the target of a link.
followed_file_type(m) == IF m.kind = "symlink" THEN m.target ELSE m.kind

\* A file type that takes a socket, a FIFO or a device node for a file.
is_file_unless_dir(m) == IF m.kind = "other" THEN "file" ELSE m.kind

\* The file type the walker acts on: that of fs::symlink_metadata, which
\* does not follow a symbolic link.
entry_file_type(m) == m.kind

ClassifyLast(p, m) == [op |-> "classify", path |-> p, meta |-> m]

\* One iteration of the classification loop of scan.rs.
ClassifyEntry ==
    /\ pc = "walk" /\ stack # <<>> /\ top.phase = "classify" /\ top.entries # <<>>
    /\ \E m \in EntryMetas(Depth(top)) :
          LET p == Append(top.path, Head(top.entries))
              rest == [top EXCEPT !.entries = Tail(top.entries)]
              f == IF ~m.ok THEN rest
                   ELSE IF entry_file_type(m) = "symlink" THEN rest
                   ELSE IF entry_file_type(m) = "file"
                        THEN [rest EXCEPT !.file_entries = Append(@, [path |-> p, meta |-> m])]
                   ELSE IF entry_file_type(m) = "dir"
                        THEN [rest EXCEPT !.dir_entries = Append(@, p)]
                   ELSE rest
          IN  /\ stack' = SetTop(Advance(f))
              /\ last' = ClassifyLast(p, m)
              /\ obs' = Observe(MetaObs(p, m))
    /\ UNCHANGED <<call, ret, impl, options, pc, root_dev, visited_inodes, out, nodes>>

(* --------------------------- process_file_entry ----------------------- *)
\* A hard-link check that never finds the inode.
NeverSeen(ino) == FALSE

\* A hard-link check keyed on the device and the inode: an inode seen on
\* the device of the root is no link of a file on another device.
SkipHardLinkOnRootDevice(ino) == ino \in visited_inodes /\ top.dev = root_dev

\* The hard-link check.
SkipHardLink(ino) == ino \in visited_inodes

\* The zero-size check.
SkipZeroFile(size) == size = 0 /\ ~options.include_zero_files

\* The inode set after process_file_entry (main.rs keeps none).
VisitedAfter(m) ==
    IF impl = "main" THEN visited_inodes ELSE visited_inodes \cup {m.ino}

\* The events process_file_entry writes for a regular file.
FileEvents(p, m) ==
    IF impl = "main" THEN <<FileEvent(p, m.len, m.ino)>>
    ELSE IF SkipHardLink(m.ino) THEN <<>>
    ELSE IF SkipZeroFile(file_size(m, options.apparent_size)) THEN <<>>
    ELSE <<FileEvent(p, file_size(m, options.apparent_size), m.ino)>>

FileLast(p, m) ==
    [op |-> "file", path |-> p, meta |-> m, seen |-> m.ino \in visited_inodes,
     dev |-> top.dev]

\* One iteration of the files-first loop of scan.rs.
ProcessFile ==
    /\ pc = "walk" /\ stack # <<>> /\ top.phase = "files" /\ top.file_entries # <<>>
    /\ LET fe == Head(top.file_entries)
           evs == FileEvents(fe.path, fe.meta)
       IN  /\ \E k \in 0..Len(evs) :
                WriteThen(evs, k,
                          /\ stack' = SetTop(Advance([top EXCEPT !.file_entries = Tail(@)]))
                          /\ pc' = pc)
           /\ visited_inodes' = VisitedAfter(fe.meta)
           /\ last' = FileLast(fe.path, fe.meta)
    /\ UNCHANGED <<call, ret, impl, options, root_dev, nodes, obs>>

\* One iteration of the directories loop of scan.rs: the recursive call.
Recurse ==
    /\ pc = "walk" /\ stack # <<>> /\ top.phase = "dirs" /\ top.dir_entries # <<>>
    /\ stack' = Append(SetTop(Advance([top EXCEPT !.dir_entries = Tail(@)])),
                       Frame(Head(top.dir_entries), FALSE))
    /\ last' = [op |-> "call", path |-> Head(top.dir_entries)]
    /\ UNCHANGED <<call, ret, impl, options, pc, root_dev, visited_inodes, out, nodes, obs>>

\* One iteration of the single loop of filesystem.rs and of main.rs.
LoopEntry ==
    /\ pc = "walk" /\ stack # <<>> /\ top.phase = "loop" /\ top.entries # <<>>
    /\ \E m \in EntryMetas(Depth(top)) :
          LET p == Append(top.path, Head(top.entries))
              rest == Advance([top EXCEPT !.entries = Tail(top.entries)])
              kind == IF m.ok THEN entry_file_type(m) ELSE "none"
          IN  /\ IF kind = "dir"
                 THEN /\ stack' = Append(SetTop(rest), Frame(p, FALSE))
                      /\ UNCHANGED <<pc, out, visited_inodes>>
                 ELSE IF kind = "file"
                 THEN /\ \E k \in 0..Len(FileEvents(p, m)) :
                           WriteThen(FileEvents(p, m), k, stack' = SetTop(rest) /\ pc' = pc)
                      /\ visited_inodes' = VisitedAfter(m)
                 ELSE /\ stack' = SetTop(rest)
                      /\ UNCHANGED <<pc, out, visited_inodes>>
              /\ last' = IF kind = "file" THEN FileLast(p, m) ELSE ClassifyLast(p, m)
    /\ obs' = ObsOff
    /\ UNCHANGED <<call, ret, impl, options, root_dev, nodes>>

\* A walker that forgets the Folder end tag.
NoCloseEvents(p) == <<>>

\* The events written when the loops of a directory are done.
CloseEvents(p) == <<FolderEndEvent(p)>>

\* The Folder end tag and the return of the call.
CloseFolder ==
    /\ pc = "walk" /\ stack # <<>> /\ top.phase = "close"
    /\ \E k \in 0..Len(CloseEvents(top.path)) : WriteThen(CloseEvents(top.path), k, Return)
    /\ last' = [op |-> "close", path |-> top.path]
    /\ UNCHANGED <<call, ret, impl, options, root_dev, visited_inodes, nodes, obs>>

Next ==
    \/ RunStartup
    \/ WriteHeader
    \/ WriteScanInfo
    \/ EnterDir
    \/ EnterDirMain
    \/ ClassifyEntry
    \/ ProcessFile
    \/ Recurse
    \/ LoopEntry
    \/ CloseFolder
    \/ FinishDocument

Spec == Init /\ [][Next]_vars

\* run with the walker of scan.rs.  It is one thread that goes on to its
\* next statement until it returns: a step is taken whenever one is possible.
\* The option sets of these runs: all off, include_empty_folders alone,
\* cross_mount_points alone.
ScanOptionSets ==
    {o \in OptionSets : ~o.apparent_size /\ ~o.include_zero_files}

InitScan == Init /\ impl = "scan" /\ options \in ScanOptionSets

NextScan ==
    \/ RunStartup
    \/ WriteHeader
    \/ WriteScanInfo
    \/ EnterDir
    \/ ClassifyEntry
    \/ ProcessFile
    \/ Recurse
    \/ CloseFolder
    \/ FinishDocument

SpecLive == InitScan /\ [][NextScan]_vars /\ WF_vars(NextScan)

(* ------------------- functions of the library, called alone ----------- *)
\* Longest string given to the escaping functions.
MaxStrLen == 2

\* Code points: NUL, BS, TAB, LF, FF, CR, US, the five special characters,
\* 'a', DEL, NEL (a C1 control), U+FFFD and the non-character U+FFFE.
EscChars == {0, 8, 9, 10, 12, 13, 31, 34, 38, 39, 60, 62, 97, 127, 133, 65533, 65534}

Strs(n) == UNION {[1..k -> EscChars] : k \in 0..n}

\* format!("{:X}", n): the upper-case hexadecimal digits of n.
HexDigit(d) == IF d < 10 THEN 48 + d ELSE 55 + d
RECURSIVE UpperHex(_)
UpperHex(n) == IF n < 16 THEN <<HexDigit(n)>> ELSE Append(UpperHex(n \div 16), HexDigit(n % 16))

\* format!("&#x{:X};", c as u32)
NumRef(c) == <<38, 35, 120>> \o UpperHex(c) \o <<59>>

\* char::is_control: the general category Cc.
is_control(c) == c \in 0..31 \/ c \in 127..159

\* The text written for the five special characters.
Entity(c) ==
    IF c = 38 THEN <<38, 97, 109, 112, 59>>
    ELSE IF c = 60 THEN <<38, 108, 116, 59>>
    ELSE IF c = 62 THEN <<38, 103, 116, 59>>
    ELSE IF c = 34 THEN <<38, 113, 117, 111, 116, 59>>
    ELSE <<38, 97, 112, 111, 115, 59>>

\* One arm of the match of sanitize_for_xml.
sanitize_char(c) ==
    IF c \in 0..8 \/ c \in 11..12 \/ c \in 14..31 \/ c = 127 THEN NumRef(c)
    ELSE IF c \in {9, 10, 13} THEN <<c>>
    ELSE IF c \in {38, 60, 62, 34, 39} THEN Entity(c)
    ELSE <<c>>

RECURSIVE sanitize_for_xml(_)
sanitize_for_xml(s) ==
    IF s = <<>> THEN <<>> ELSE sanitize_char(Head(s)) \o sanitize_for_xml(Tail(s))

\* One arm of the match of xml_escape.
xml_escape_char(c) ==
    IF c \in {38, 60, 62, 34, 39} THEN Entity(c)
    ELSE IF is_control(c) \/ c = 65533 THEN NumRef(c)
    ELSE <<c>>

RECURSIVE xml_escape(_)
xml_escape(s) ==
    IF s = <<>> THEN <<>> ELSE xml_escape_char(Head(s)) \o xml_escape(Tail(s))

\* quick_xml::escape::escape: the entities of & < > " ' and every other
\* character as it is.
quick_xml_escape_char(c) == IF c \in {38, 60, 62, 34, 39} THEN Entity(c) ELSE <<c>>

RECURSIVE quick_xml_escape(_)
quick_xml_escape(s) ==
    IF s = <<>> THEN <<>> ELSE quick_xml_escape_char(Head(s)) \o quick_xml_escape(Tail(s))

\* BytesStart::push_attribute of a (&str, &str) pair: the key is stored as
\* it is and the value is escaped.
push_attribute(value) == quick_xml_escape(value)

\* The value of the name attribute scan.rs and filesystem.rs write:
\* push_attribute(("name", escape(&name).as_ref()))
name_attribute(name) == push_attribute(quick_xml_escape(name))

\* The value of the name attribute main.rs prints: xml_escape(&name)
main_name_attribute(name) == xml_escape(name)

\* DEFAULT_DATETIME, "1970-01-01T00:00:00Z"
DEFAULT_DATETIME ==
    <<49, 57, 55, 48, 45, 48, 49, 45, 48, 49, 84, 48, 48, 58, 48, 48, 58, 48, 48, 90>>

\* A Result<SystemTime, io::Error>: whole seconds from the Unix epoch.
OkTime(secs) == [ok |-> TRUE, secs |-> secs]
ErrTime == [ok |-> FALSE, secs |-> 0]

\* 1969-12-31T23:59:59, the epoch, its first minute and day, 2000-02-29,
\* 2021-01-01 (the time of test_format_system_time_valid), 2024-02-29T23:59:59.
TimeSecs == {-1, 0, 59, 86399, 86400, 951782400, 1609459200, 1709251199}
SysTimes == {ErrTime} \cup {OkTime(t) : t \in TimeSecs}

\* DateTime<Utc>::from(SystemTime): the civil date of a day number.
DateOfDays(z0) ==
    LET z == z0 + 719468
        era == z \div 146097
        doe == z - era * 146097
        yoe == (doe - doe \div 1460 + doe \div 36524 - doe \div 146096) \div 365
        doy == doe - (365 * yoe + yoe \div 4 - yoe \div 100)
        mp == (5 * doy + 2) \div 153
        d == doy - (153 * mp + 2) \div 5 + 1
        m == IF mp < 10 THEN mp + 3 ELSE mp - 9
        y == yoe + era * 400 + (IF m <= 2 THEN 1 ELSE 0)
    IN  [year |-> y, month |-> m, day |-> d]

\* A number as decimal digits, padded with zeros to the width w.
RECURSIVE Digits(_, _)
Digits(n, w) == IF w = 0 THEN <<>> ELSE Append(Digits(n \div 10, w - 1), 48 + (n % 10))

\* DateTime::format with the format string "%Y-%d-%mT%H:%M:%SZ".
FormatDayFirst(date, secs) ==
    Digits(date.year, 4) \o <<45>> \o Digits(date.day, 2) \o <<45>> \o Digits(date.month, 2)
        \o <<84>> \o Digits(secs \div 3600, 2) \o <<58>> \o Digits((secs \div 60) % 60, 2)
        \o <<58>> \o Digits(secs % 60, 2) \o <<90>>

\* DateTime::format with the format string "%Y-%m-%dT%H:%M:%SZ".
Format(date, secs) ==
    Digits(date.year, 4) \o <<45>> \o Digits(date.month, 2) \o <<45>> \o Digits(date.day, 2)
        \o <<84>> \o Digits(secs \div 3600, 2) \o <<58>> \o Digits((secs \div 60) % 60, 2)
        \o <<58>> \o Digits(secs % 60, 2) \o <<90>>

format_system_time(sys_time) ==
    IF sys_time.ok
    THEN Format(DateOfDays(sys_time.secs \div 86400), sys_time.secs % 86400)
    ELSE DEFAULT_DATETIME

\* The metadata of get_file_times: its created, modified and accessed times.
get_file_times(metadata) ==
    << format_system_time(metadata[1]), format_system_time(metadata[2]),
       format_system_time(metadata[3]) >>

\* Option<T>
None == [some |-> FALSE]
Some(v) == [some |-> TRUE, val |-> v]

\* str::ends_with
ends_with(s, suffix) ==
    Len(suffix) <= Len(s) /\ SubSeq(s, Len(s) - Len(suffix) + 1, Len(s)) = suffix

\* ".gpscan"
GpscanExt == <<46, 103, 112, 115, 99, 97, 110>>

\* Where the final component of a path string starts and ends: separators
\* and "." components at its end are not part of a component (Path::components).
RECURSIVE CompEnd(_, _)
CompEnd(s, e) ==
    IF e = 0 THEN 0
    ELSE IF s[e] = 47 THEN CompEnd(s, e - 1)
    ELSE IF s[e] = 46 /\ e > 1 /\ s[e - 1] = 47 THEN CompEnd(s, e - 1)
    ELSE e
RECURSIVE CompStart(_, _)
CompStart(s, e) == IF e = 0 \/ s[e] = 47 THEN e + 1 ELSE CompStart(s, e - 1)

\* Path::file_name: the final component, unless it is "..", "." or the root.
path_file_name(s) ==
    LET e == CompEnd(s, Len(s))
        b == CompStart(s, e)
        c == SubSeq(s, b, e)
    IN  IF e = 0 \/ c = <<46, 46>> \/ c = <<46>> THEN None ELSE Some(c)

\* Path::parent: the path without its final component and without the
\* separators and "." components before it; the root keeps its separator.
StripSeparators(s, e) ==
    LET k == CompEnd(s, e)
    IN  IF k = 0 /\ e > 0 THEN <<47>> ELSE SubSeq(s, 1, k)
path_parent(s) ==
    LET e == CompEnd(s, Len(s))
        b == CompStart(s, e)
    IN  StripSeparators(s, b - 1)

\* Path::join of a parent and a file name.
path_join(parent, name) ==
    IF parent[Len(parent)] = 47 THEN parent \o name ELSE parent \o <<47>> \o name

\* The loop that pops the trailing dots of a file name.
RECURSIVE trim_dots(_)
trim_dots(s) ==
    IF s # <<>> /\ s[Len(s)] = 46 THEN trim_dots(SubSeq(s, 1, Len(s) - 1)) ELSE s

\* Options::process_output_filename without the loop that pops the dots.
process_output_filename_untrimmed(filename) ==
    IF ends_with(filename, <<47>>) \/ ends_with(filename, <<92>>) THEN filename
    ELSE IF ~path_file_name(filename).some THEN filename
    ELSE LET fname == path_file_name(filename).val
             parent == path_parent(filename)
         IN  IF ends_with(fname, GpscanExt) THEN filename
             ELSE IF parent # <<>> THEN path_join(parent, fname \o GpscanExt)
             ELSE fname \o GpscanExt

\* Options::process_output_filename
process_output_filename(filename) ==
    IF ends_with(filename, <<47>>) \/ ends_with(filename, <<92>>) THEN filename
    ELSE IF ~path_file_name(filename).some THEN filename
    ELSE LET fname == path_file_name(filename).val
             trimmed == trim_dots(fname)
             new_fname == trimmed \o GpscanExt
             parent == path_parent(filename)
         IN  IF ends_with(fname, GpscanExt) THEN filename
             ELSE IF fname = <<46>> \/ fname = <<46, 46>> THEN filename
             ELSE IF trimmed = <<>> THEN filename
             ELSE IF parent # <<>> THEN path_join(parent, new_fname)
             ELSE new_fname

\* A compression chosen by the extension of the output file name.
compression_by_extension(output_file, no_gzip, gzip_flag) ==
    IF output_file.some
    THEN IF ends_with(output_file.val, <<46, 103, 122>>) /\ ~no_gzip THEN "Gzip" ELSE "None"
    ELSE IF gzip_flag THEN "Gzip" ELSE "None"

\* The compression type Options::from_matches determines.
compression_type(output_file, no_gzip, gzip_flag) ==
    IF output_file.some
    THEN IF no_gzip THEN "None" ELSE "Gzip"
    ELSE IF gzip_flag THEN "Gzip" ELSE "None"

\* Options::from_matches of options.rs.
from_matches(matches) ==
    [apparent_size |-> matches.apparent_size,
     cross_mount_points |-> matches.mounts,
     include_zero_files |-> matches.zero_files,
     include_empty_folders |-> matches.empty_folders,
     compression_type |-> compression_type(matches.output, matches.no_gzip, matches.gzip),
     output_filename |-> IF matches.output.some
                         THEN Some(process_output_filename(matches.output.val))
                         ELSE None,
     compression_level |-> IF matches.compression_level.some
                           THEN matches.compression_level.val ELSE 6,
     force_overwrite |-> matches.force]

\* "foo", "foo.gz", "foo.xml", "foo.gpscan", "d/foo"
OutputNames ==
    { <<102, 111, 111>>, <<102, 111, 111, 46, 103, 122>>, <<102, 111, 111, 46, 120, 109, 108>>,
      <<102, 111, 111>> \o GpscanExt, <<100, 47, 102, 111, 111>> }

\* The matches of the command line: the output option, the compression
\* flags and level, --force, and the four scan flags all off or all on.
Matches ==
    [output : {None} \cup {Some(n) : n \in OutputNames},
     no_gzip : BOOLEAN, gzip : BOOLEAN,
     compression_level : {None, Some(0), Some(6), Some(9)},
     force : BOOLEAN,
     apparent_size : BOOLEAN, mounts : BOOLEAN, zero_files : BOOLEAN, empty_folders : BOOLEAN]

\* A path as Path::components sees it: absolute or not, and its names.
AbsPath(names) == [absolute |-> TRUE, names |-> names]
RelPath(names) == [absolute |-> FALSE, names |-> names]

\* Path::components().count(): the root counts as a component.
components_count(p) == Len(p.names) + (IF p.absolute THEN 1 ELSE 0)

\* Path::starts_with: whole components, never part of a name.
starts_with(p, base) ==
    /\ p.absolute = base.absolute
    /\ Len(base.names) <= Len(p.names)
    /\ SubSeq(p.names, 1, Len(base.names)) = base.names

\* Path::to_string_lossy of a path.
RECURSIVE JoinNames(_)
JoinNames(names) ==
    IF names = <<>> THEN <<>>
    ELSE IF Len(names) = 1 THEN names[1]
    ELSE names[1] \o <<47>> \o JoinNames(Tail(names))
path_text(p) == (IF p.absolute THEN <<47>> ELSE <<>>) \o JoinNames(p.names)

\* A disk of sysinfo: mount_point(), total_space(), available_space().
Disk(mount_point, total_space, available_space) ==
    [mount_point |-> mount_point, total_space |-> total_space,
     available_space |-> available_space]

\* fs::canonicalize(root_path).unwrap_or_else(|_| root_path.to_path_buf())
abs_root_path(root_path, canonical) == IF canonical.some THEN canonical.val ELSE root_path

\* disks.sort_by_key(|disk| Reverse(disk.mount_point().components().count())):
\* a stable sort, the deepest mount points first.
RECURSIVE InsertByDepth(_, _)
InsertByDepth(s, d) ==
    IF s = <<>> THEN <<d>>
    ELSE IF components_count(Head(s).mount_point) >= components_count(d.mount_point)
         THEN <<Head(s)>> \o InsertByDepth(Tail(s), d)
         ELSE <<d>> \o s
RECURSIVE sort_by_key(_)
sort_by_key(disks) ==
    IF disks = <<>> THEN <<>>
    ELSE InsertByDepth(sort_by_key(SubSeq(disks, 1, Len(disks) - 1)), disks[Len(disks)])

\* The loop over the disks: the first whose mount point the root starts
\* with, and ("/", 0, 0) when there is none.
RECURSIVE first_matching_disk(_, _)
first_matching_disk(root, disks) ==
    IF disks = <<>> THEN << <<47>>, 0, 0 >>
    ELSE IF starts_with(root, Head(disks).mount_point)
         THEN << path_text(Head(disks).mount_point), Head(disks).total_space,
                 Head(disks).available_space >>
         ELSE first_matching_disk(root, Tail(disks))

\* get_volume_info of volume.rs and of filesystem.rs.
get_volume_info(root_path, canonical, disks) ==
    first_matching_disk(abs_root_path(root_path, canonical), sort_by_key(disks))

\* get_volume_info of main.rs: the disks in the order sysinfo lists them.
main_get_volume_info(root_path, canonical, disks) ==
    first_matching_disk(abs_root_path(root_path, canonical), disks)

\* A u64 as six digits of base 4096, the lowest first; the highest digit
\* holds the four bits 60..63.
Base == 4096
U64(n) == <<n % Base, (n \div Base) % Base, n \div (Base * Base), 0, 0, 0>>

\* The exact sum x + k and product x * k of a u64 and a small number, with
\* a seventh digit for what does not fit.
RECURSIVE AddDigits(_, _)
AddDigits(x, k) ==
    IF x = <<>> THEN <<k>>
    ELSE <<(Head(x) + k) % Base>> \o AddDigits(Tail(x), (Head(x) + k) \div Base)
RECURSIVE MulDigits(_, _, _)
MulDigits(x, k, carry) ==
    IF x = <<>> THEN <<carry>>
    ELSE <<(Head(x) * k + carry) % Base>> \o MulDigits(Tail(x), k, (Head(x) * k + carry) \div Base)
Carried(w) == <<w[1], w[2], w[3], w[4], w[5], w[6] % 16>>
Overflows(w) == w[7] # 0 \/ w[6] >= 16

\* x / 4096 and x * 4096 in u64.
DivBase(x) == Tail(x) \o <<0>>
MulBase(x) == <<0>> \o x

\* What an arithmetic expression leaves: its value, or a panic of a build
\* with overflow checks where the exact value does not fit.
Value(v) == [panicked |-> FALSE, value |-> v]
Panicked == [panicked |-> TRUE]
Outcomes(overflow, wrapped) == IF overflow THEN {Panicked, Value(wrapped)} ELSE {Value(wrapped)}

\* MetadataExtOps::file_size on Linux, macOS and FreeBSD, in u64.
unix_file_size(len, blocks, apparent) ==
    IF apparent THEN {Value(len)}
    ELSE Outcomes(Overflows(MulDigits(blocks, 512, 0)), Carried(MulDigits(blocks, 512, 0)))

\* MetadataExtOps::file_size on Windows:
\* ((file_size + cluster_size - 1) / cluster_size) * cluster_size
windows_file_size(len, apparent) ==
    IF apparent THEN {Value(len)}
    ELSE IF len = U64(0) THEN {Value(U64(0))}
    ELSE LET sum == AddDigits(len, Base - 1)
             quotient == DivBase(Carried(sum))
         IN  Outcomes(Overflows(sum) \/ Overflows(MulBase(quotient)),
                      Carried(MulBase(quotient)))

Call(fn, arg) == [fn |-> fn, arg |-> arg]
Returned(val) == [done |-> TRUE, val |-> val]

EscapeCalls == {Call(f, s) : f \in {"sanitize_for_xml", "xml_escape"}, s \in Strs(MaxStrLen)}

TimeCalls == {Call("get_file_times", <<c, m, a>>) : c \in SysTimes, m \in SysTimes, a \in SysTimes}

\* Two runs list the same unmodified directory: the file system hands each
\* run the same names, in an order of its own.
ListCalls ==
    UNION {{Call("read_directory", <<l1, l2>>) : l1 \in Orders(S), l2 \in Orders(S)} : S \in NameSets}

\* Longest output file name built from PathChars.
MaxNameLen == 3

\* '.', '/', '\' and 'a'
PathChars == {46, 47, 92, 97}

\* "foo.gpscan", ".gpscan", "a.gpscan.", "a..gpscan", "d/foo.", "a/./b",
\* "a//b" and the "out/result.xml" of test_process_output_filename.
LongNames ==
    { <<102, 111, 111>> \o GpscanExt, GpscanExt, <<97>> \o GpscanExt \o <<46>>,
      <<97, 46>> \o GpscanExt, <<100, 47, 102, 111, 111, 46>>, <<97, 47, 46, 47, 98>>,
      <<97, 47, 47, 98>>,
      <<111, 117, 116, 47, 114, 101, 115, 117, 108, 116, 46, 120, 109, 108>> }

NameCalls ==
    {Call("process_output_filename", n) :
        n \in LongNames \cup UNION {[1..k -> PathChars] : k \in 0..MaxNameLen}}

\* Most disks sysinfo lists.
MaxDisks == 2

\* The mount points "/", "/h", "/h/u" and "/m", each with its sizes.
DiskSet ==
    { Disk(AbsPath(<<>>), 1000, 400), Disk(AbsPath(<< <<104>> >>), 2000, 500),
      Disk(AbsPath(<< <<104>>, <<117>> >>), 3000, 0), Disk(AbsPath(<< <<109>> >>), 4000, 4000) }

\* Lists of different disks, in every order.
DiskLists ==
    UNION {{l \in [1..k -> DiskSet] : \A i, j \in 1..k : i # j => l[i] # l[j]} : k \in 0..MaxDisks}

\* The root "/h/u" given as it is, "u" given from "/h", and "u" when
\* canonicalize fails.
RootArgs ==
    { [root_path |-> AbsPath(<< <<104>>, <<117>> >>), canonical |-> Some(AbsPath(<< <<104>>, <<117>> >>))],
      [root_path |-> RelPath(<< <<117>> >>), canonical |-> Some(AbsPath(<< <<104>>, <<117>> >>))],
      [root_path |-> RelPath(<< <<117>> >>), canonical |-> None] }

VolumeCalls ==
    {Call(f, [root_path |-> r.root_path, canonical |-> r.canonical, disks |-> l]) :
        f \in {"get_volume_info", "main_get_volume_info"}, r \in RootArgs, l \in DiskLists}

\* Lengths 0, 1, 4095, 4096, 4097, 2^64 - 4096, 2^64 - 4095 and 2^64 - 1.
Lengths ==
    { U64(0), U64(1), U64(4095), U64(4096), U64(4097),
      <<0, 4095, 4095, 4095, 4095, 15>>, <<1, 4095, 4095, 4095, 4095, 15>>,
      <<4095, 4095, 4095, 4095, 4095, 15>> }

\* Block counts 0, 1, 8, 2^55 - 1, 2^55 and 2^64 - 1.
BlockCounts ==
    { U64(0), U64(1), U64(8), <<4095, 4095, 4095, 4095, 127, 0>>, <<0, 0, 0, 0, 128, 0>>,
      <<4095, 4095, 4095, 4095, 4095, 15>> }

SizeCalls ==
    {Call("unix_file_size", [len |-> l, blocks |-> b, apparent |-> a]) :
        l \in Lengths, b \in BlockCounts, a \in BOOLEAN}
    \cup {Call("windows_file_size", [len |-> l, apparent |-> a]) : l \in Lengths, a \in BOOLEAN}

AttributeCalls ==
    {Call(f, s) : f \in {"name_attribute", "main_name_attribute"}, s \in Strs(MaxStrLen)}

OptionCalls ==
    {Call("from_matches", m) : m \in {x \in Matches : /\ x.apparent_size = x.mounts
                                                       /\ x.mounts = x.zero_files
                                                       /\ x.zero_files = x.empty_folders}}

Calls == EscapeCalls \cup TimeCalls \cup ListCalls \cup OptionCalls \cup NameCalls
         \cup VolumeCalls \cup SizeCalls \cup AttributeCalls

\* A test or a caller hands one function its argument.
InitFn ==
    /\ impl = "scan"
    /\ options = [apparent_size |-> FALSE, cross_mount_points |-> FALSE,
                  include_zero_files |-> FALSE, include_empty_folders |-> FALSE]
    /\ pc = "lib"
    /\ root_dev = 0
    /\ visited_inodes = {}
    /\ stack = <<>>
    /\ out = <<>>
    /\ nodes = 0
    /\ last = NoLast
    /\ obs = <<>>
    /\ call \in Calls
    /\ ret = NoRet

walker == <<impl, options, pc, root_dev, visited_inodes, stack, out, nodes, last, obs>>

CallSanitize ==
    /\ pc = "lib" /\ ~ret.done /\ call.fn = "sanitize_for_xml"
    /\ ret' = Returned(sanitize_for_xml(call.arg))
    /\ UNCHANGED <<call, walker>>

CallXmlEscape ==
    /\ pc = "lib" /\ ~ret.done /\ call.fn = "xml_escape"
    /\ ret' = Returned(xml_escape(call.arg))
    /\ UNCHANGED <<call, walker>>

CallGetFileTimes ==
    /\ pc = "lib" /\ ~ret.done /\ call.fn = "get_file_times"
    /\ ret' = Returned(get_file_times(call.arg))
    /\ UNCHANGED <<call, walker>>

\* read_directory and entries.sort_by in each of the two runs: the order in
\* which each run goes through the directory.
CallReadDirectory ==
    /\ pc = "lib" /\ ~ret.done /\ call.fn = "read_directory"
    /\ ret' = Returned(<<OrderEntries(call.arg[1]), OrderEntries(call.arg[2])>>)
    /\ UNCHANGED <<call, walker>>

CallFromMatches ==
    /\ pc = "lib" /\ ~ret.done /\ call.fn = "from_matches"
    /\ ret' = Returned(from_matches(call.arg))
    /\ UNCHANGED <<call, walker>>

CallProcessOutputFilename ==
    /\ pc = "lib" /\ ~ret.done /\ call.fn = "process_output_filename"
    /\ ret' = Returned(process_output_filename(call.arg))
    /\ UNCHANGED <<call, walker>>

CallGetVolumeInfo ==
    /\ pc = "lib" /\ ~ret.done /\ call.fn = "get_volume_info"
    /\ ret' = Returned(get_volume_info(call.arg.root_path, call.arg.canonical, call.arg.disks))
    /\ UNCHANGED <<call, walker>>

CallGetVolumeInfoMain ==
    /\ pc = "lib" /\ ~ret.done /\ call.fn = "main_get_volume_info"
    /\ ret' = Returned(main_get_volume_info(call.arg.root_path, call.arg.canonical, call.arg.disks))
    /\ UNCHANGED <<call, walker>>

CallUnixFileSize ==
    /\ pc = "lib" /\ ~ret.done /\ call.fn = "unix_file_size"
    /\ \E o \in unix_file_size(call.arg.len, call.arg.blocks, call.arg.apparent) :
            ret' = Returned(o)
    /\ UNCHANGED <<call, walker>>

CallWindowsFileSize ==
    /\ pc = "lib" /\ ~ret.done /\ call.fn = "windows_file_size"
    /\ \E o \in windows_file_size(call.arg.len, call.arg.apparent) : ret' = Returned(o)
    /\ UNCHANGED <<call, walker>>

CallNameAttribute ==
    /\ pc = "lib" /\ ~ret.done /\ call.fn = "name_attribute"
    /\ ret' = Returned(name_attribute(call.arg))
    /\ UNCHANGED <<call, walker>>

CallNameAttributeMain ==
    /\ pc = "lib" /\ ~ret.done /\ call.fn = "main_name_attribute"
    /\ ret' = Returned(main_name_attribute(call.arg))
    /\ UNCHANGED <<call, walker>>

NextFn ==
    \/ CallSanitize
    \/ CallXmlEscape
    \/ CallGetFileTimes
    \/ CallReadDirectory
    \/ CallFromMatches
    \/ CallProcessOutputFilename
    \/ CallGetVolumeInfo
    \/ CallGetVolumeInfoMain
    \/ CallUnixFileSize
    \/ CallWindowsFileSize
    \/ CallNameAttribute
    \/ CallNameAttributeMain

SpecFn == InitFn /\ [][NextFn]_vars

(* ============================== claims ================================ *)
Idx(tags) == {i \in 1..Len(out) : out[i].tag \in tags}
Parent(p) == SubSeq(p, 1, Len(p) - 1)
\* The events written for the entry at path p.
EventsFor(p) == {i \in Idx({"FolderStart", "FolderEnd", "File"}) : out[i].path = p}
Defaults ==
    [apparent_size |-> FALSE, cross_mount_points |-> FALSE,
     include_zero_files |-> FALSE, include_empty_folders |-> FALSE]
Written == pc # "write_error"

\* The Folder elements open after the first i events, innermost last, and
\* whether the events so far are well nested.
RECURSIVE NestState(_)
NestState(i) ==
    IF i = 0 THEN [ok |-> TRUE, open |-> <<>>]
    ELSE LET s == NestState(i - 1)
             e == out[i]
         IN  IF ~s.ok THEN s
             ELSE IF e.tag = "FolderStart" THEN [ok |-> TRUE, open |-> Append(s.open, e.path)]
             ELSE IF e.tag = "FolderEnd" THEN
                  IF s.open # <<>> /\ s.open[Len(s.open)] = e.path
                  THEN [ok |-> TRUE, open |-> SubSeq(s.open, 1, Len(s.open) - 1)]
                  ELSE [ok |-> FALSE, open |-> s.open]
             ELSE IF e.tag = "File" THEN [ok |-> s.open # <<>>, open |-> s.open]
             ELSE s

\* C1: when a scan completes without a write error the events are well
\* nested: every Folder end tag closes the innermost open Folder, every
\* Folder is closed, every File lies inside an open Folder, and all Folder
\* and File events lie between the ScanInfo start and end tags, which lie
\* inside the one root element.
C1_WellNested ==
    pc = "done" =>
        LET n == Len(out)
            s == Idx({"ScanInfoStart"})
            r == Idx({"RootStart"})
        IN  /\ NestState(n).ok
            /\ NestState(n).open = <<>>
            /\ n >= 4
            /\ Idx({"RootEnd"}) = {n}
            /\ Idx({"ScanInfoEnd"}) = {n - 1}
            /\ Cardinality(s) = 1
            /\ Cardinality(r) = 1
            /\ \A i \in r, j \in s : i < j
            /\ \A i \in Idx({"FolderStart", "FolderEnd", "File"}), j \in s : j < i /\ i < n - 1

\* A completed scan with a File inside a Folder inside the root Folder.
C1_Witness ==
    /\ pc = "done"
    /\ \E i \in Idx({"File"}) : Len(out[i].path) = Len(RootPath) + 2

\* C2: with the inode tracker (scan.rs, filesystem.rs) no two File events
\* of a scan have the same inode number, and a regular file whose inode was
\* not seen before and that passes the size filter yields a File event.
C2_OneFilePerInode ==
    impl # "main" =>
        /\ \A i, j \in Idx({"File"}) : out[i].ino = out[j].ino => i = j
        /\ (/\ last.op = "file" /\ ~last.seen /\ Written
            /\ (file_size(last.meta, options.apparent_size) # 0 \/ options.include_zero_files))
           => (/\ out # <<>>
               /\ out[Len(out)].tag = "File"
               /\ out[Len(out)].path = last.path
               /\ out[Len(out)].ino = last.meta.ino)

\* Two File events with distinct inodes, then a hard link that is suppressed.
C2_Witness ==
    /\ impl = "scan"
    /\ Cardinality(Idx({"File"})) = 2
    /\ last.op = "file" /\ last.seen
    /\ EventsFor(last.path) = {}

\* Whether the entry at path p is held by the walker for later processing.
Queued(p, st) ==
    \E i \in 1..Len(st) :
        \/ st[i].path = p
        \/ \E j \in 1..Len(st[i].dir_entries) : st[i].dir_entries[j] = p
        \/ \E j \in 1..Len(st[i].file_entries) : st[i].file_entries[j].path = p

\* C3: the step that finds an entry to be a symbolic link writes no event,
\* starts no call for it, keeps it in no list and leaves the inode set as
\* it was, whatever the link points to.
C3_SymlinkSkipped ==
    [][(/\ last'.op = "classify" /\ last' # last
        /\ last'.meta.ok /\ last'.meta.kind = "symlink")
       => (/\ out' = out
           /\ visited_inodes' = visited_inodes
           /\ Len(stack') = Len(stack)
           /\ ~Queued(last'.path, stack')
           /\ pc' = pc)]_vars

\* A symbolic link to a directory has just been skipped.
C3_Witness ==
    /\ last.op = "classify" /\ last.meta.ok
    /\ last.meta.kind = "symlink" /\ last.meta.target = "dir"
    /\ EventsFor(last.path) = {}

\* C4: with the walkers of scan.rs and filesystem.rs no File of a directory
\* is written after the Folder start tag of one of its subdirectories.
C4_FilesBeforeFolders ==
    impl \in {"scan", "filesystem"} =>
        \A i \in Idx({"FolderStart"}), j \in Idx({"File"}) :
            Parent(out[i].path) = Parent(out[j].path) => j < i

\* C5: with the walker of scan.rs the File children of a Folder are in
\* strictly ascending order of name, and so are its Folder children.
C5_SiblingsAscending ==
    impl = "scan" =>
        \A t \in {"File", "FolderStart"} :
            \A i, j \in Idx({t}) :
                (i < j /\ Parent(out[i].path) = Parent(out[j].path))
                    => cmp(out[i].name, out[j].name) = "Less"

\* C6: with the walkers of scan.rs and filesystem.rs a directory whose
\* listing has no entry gets no event when include_empty_folders is off, and
\* a Folder start tag directly followed by its end tag when it is on.
C6_EmptyFolder ==
    impl # "main" =>
        /\ \A i \in Idx({"FolderStart"}) :
              out[i].n = 0 =>
                  /\ options.include_empty_folders
                  /\ i < Len(out) => out[i + 1] = FolderEndEvent(out[i].path)
        /\ (last.op = "enter" /\ last.list_ok /\ last.n = 0) =>
              IF options.include_empty_folders
              THEN Written =>
                      /\ out # <<>>
                      /\ out[Len(out)] = FolderStartEvent(last.path, last.is_root, 0)
                      /\ stack # <<>> /\ top.path = last.path /\ top.phase = "close"
              ELSE EventsFor(last.path) = {}

\* A completed scan whose output holds an empty Folder element of a
\* subdirectory.
C6_Witness ==
    /\ pc = "done" /\ impl = "scan"
    /\ \E i \in Idx({"FolderStart"}) :
          /\ out[i].n = 0 /\ out[i].path # RootPath
          /\ out[i + 1] = FolderEndEvent(out[i].path)

\* The size of a regular file under the size mode of the options.
LogicalLength(m) == m.len
AllocatedBytes(m) == 512 * m.blocks
ActiveSize(m) == IF options.apparent_size THEN LogicalLength(m) ELSE AllocatedBytes(m)

\* C7: with the walkers of scan.rs and filesystem.rs a regular file not seen
\* before whose size under the active mode is zero gets no File event unless
\* include_zero_files is set, and is then written with size 0; one whose
\* size under the active mode is not zero is always written, with that size.
C7_ZeroSizeFilter ==
    impl # "main" =>
        /\ \A i \in Idx({"File"}) : out[i].size = 0 => options.include_zero_files
        /\ (last.op = "file" /\ ~last.seen /\ Written) =>
              IF ActiveSize(last.meta) = 0 /\ ~options.include_zero_files
              THEN EventsFor(last.path) = {}
              ELSE /\ out # <<>>
                   /\ out[Len(out)] = FileEvent(last.path, ActiveSize(last.meta), last.meta.ino)

\* A 10-byte file without allocated blocks is written with size 0 in
\* physical mode.
C7_Witness ==
    /\ impl = "scan" /\ ~options.apparent_size /\ options.include_zero_files
    /\ last.op = "file" /\ ~last.seen
    /\ last.meta.len = 10 /\ last.meta.blocks = 0
    /\ out[Len(out)] = FileEvent(last.path, 0, last.meta.ino)

\* An element without children: a Folder start tag followed by its end tag.
Childless(i) == out[i].tag = "FolderStart" /\ i < Len(out) /\ out[i + 1].tag = "FolderEnd"

ScenarioDone == pc = "done" /\ impl = "scan" /\ options = Defaults /\ obs = ScenarioObs

\* C8 as stated: with include_empty_folders off (scan.rs) a directory whose
\* children are all filtered out gets no Folder element; the scan of
\* t/r/{a (10 bytes), b/ (empty), c/{a (0 bytes)}} with the default options
\* writes File a and no Folder b and no Folder c.
C8_CascadingEmpty ==
    /\ (impl = "scan" /\ ~options.include_empty_folders) =>
          \A i \in 1..Len(out) : ~Childless(i)
    /\ ScenarioDone =>
          /\ EventsFor(Append(RootPath, <<97>>)) # {}
          /\ EventsFor(Append(RootPath, <<98>>)) = {}
          /\ EventsFor(Append(RootPath, <<99>>)) = {}

\* C8 amended: with include_empty_folders off (scan.rs) only a directory
\* whose listing is empty is omitted; a directory with entries gets its
\* Folder start tag whatever becomes of its children, and the scan of
\* t/r/{a (10 bytes), b/ (empty), c/{a (0 bytes)}} with the default options
\* writes File a, a childless Folder c and no Folder b.
C8_OnlyListedEmptyOmitted ==
    /\ (impl = "scan" /\ ~options.include_empty_folders) =>
          /\ \A i \in Idx({"FolderStart"}) : out[i].n > 0
          /\ (last.op = "enter" /\ last.list_ok /\ last.n > 0 /\ Written) =>
                /\ out # <<>>
                /\ out[Len(out)] = FolderStartEvent(last.path, last.is_root, last.n)
    /\ ScenarioDone =>
          out = HeaderEvents \o
                << ScanInfoStartEvent("physical"),
                   FolderStartEvent(RootPath, TRUE, 3),
                   FileEvent(Append(RootPath, <<97>>), 4096, 1),
                   FolderStartEvent(Append(RootPath, <<99>>), FALSE, 1),
                   FolderEndEvent(Append(RootPath, <<99>>)),
                   FolderEndEvent(RootPath),
                   ScanInfoEndEvent, RootEndEvent >>

\* The scan of the tree of C8 with the default options has completed.
C8_Witness == ScenarioDone

\* C9: the fileSizeMeasure attribute of ScanInfo is "logical" exactly when
\* apparent_size is set and "physical" otherwise.
C9_MeasureMatchesMode ==
    impl # "main" =>
        \A i \in Idx({"ScanInfoStart"}) :
            out[i].fileSizeMeasure = (IF options.apparent_size THEN "logical" ELSE "physical")

\* Whether path p is path q or lies below it.
Under(p, q) == Len(p) >= Len(q) /\ SubSeq(p, 1, Len(q)) = q

\* C10: with cross_mount_points off a directory on another device than the
\* root is not listed and nothing is written for it or below it; with
\* cross_mount_points on a directory on another device is listed.
C10_MountBoundary ==
    (last.op = "enter" /\ last.meta_ok /\ last.foreign) =>
        IF options.cross_mount_points
        THEN last.listed
        ELSE /\ ~last.listed
             /\ \A i \in Idx({"FolderStart", "FolderEnd", "File"}) : ~Under(out[i].path, last.path)

\* C11: with the inode set (scan.rs, filesystem.rs) an inode number of 0 is
\* never put into visited_inodes, and every regular file whose inode number
\* is 0 and that passes the size filter is written, whatever was seen before.
C11_ZeroInodeNeverTracked ==
    impl # "main" =>
        /\ 0 \notin visited_inodes
        /\ (/\ last.op = "file" /\ last.meta.ino = 0 /\ Written
            /\ (ActiveSize(last.meta) # 0 \/ options.include_zero_files))
           => (/\ out # <<>>
               /\ out[Len(out)] = FileEvent(last.path, ActiveSize(last.meta), 0))

\* C12: with the walkers of scan.rs and filesystem.rs a call whose directory
\* metadata or listing cannot be read returns Ok(()) to its caller having
\* written nothing, with the frames of its ancestors as they were; a child
\* whose metadata cannot be read is dropped without an event, a call or a
\* place in a list, and the walker goes on with the entries that follow it.
C12_NodeErrorsSwallowed ==
    [][impl # "main" =>
        /\ (/\ last' # last /\ last'.op = "enter"
            /\ (~last'.meta_ok \/ (last'.listed /\ ~last'.list_ok)))
           => (/\ out' = out
               /\ visited_inodes' = visited_inodes
               /\ stack' = Below
               /\ pc' = IF Len(stack) = 1 THEN "close" ELSE "walk")
        /\ (last' # last /\ last'.op = "classify" /\ ~last'.meta.ok)
           => (/\ out' = out
               /\ visited_inodes' = visited_inodes
               /\ pc' = "walk"
               /\ Len(stack') = Len(stack)
               /\ SubSeq(stack', 1, Len(stack) - 1) = Below
               /\ ~Queued(last'.path, stack')
               /\ stack'[Len(stack)].entries = Tail(top.entries)
               /\ stack'[Len(stack)].file_entries = top.file_entries
               /\ stack'[Len(stack)].dir_entries = top.dir_entries)]_vars

\* The listing of a subdirectory could not be read while a sibling
\* directory is still to be visited and a File has been written.
C12_Witness ==
    /\ impl = "scan" /\ pc = "walk"
    /\ last.op = "enter" /\ last.listed /\ ~last.list_ok /\ ~last.is_root
    /\ Len(stack) = 1 /\ top.dir_entries # <<>>
    /\ Idx({"File"}) # {}
    /\ EventsFor(last.path) = {}

IsPrefix(a, b) == Len(a) <= Len(b) /\ SubSeq(b, 1, Len(a)) = a

\* C13: (scan.rs, filesystem.rs) the step in which a write fails leaves no
\* frame of the walker, keeps what was written before it, writes no end tag
\* of the root element, and keeps the inode set, including the inode of the
\* file whose File event failed; after it nothing more is written.
C13_WriteErrorPropagates ==
    [][impl # "main" =>
        /\ (pc = "write_error") => (pc' = "write_error" /\ out' = out)
        /\ (pc # "write_error" /\ pc' = "write_error")
           => (/\ stack' = <<>>
               /\ IsPrefix(out, out')
               /\ Len(out') <= Len(out) + 1
               /\ \A i \in 1..Len(out') : out'[i].tag # "RootEnd"
               /\ visited_inodes \subseteq visited_inodes'
               /\ (last' # last /\ last'.op = "file")
                    => last'.meta.ino \in visited_inodes')]_vars

\* The write of a File event inside a subdirectory has failed: two Folder
\* elements are left open and the inode of the file is in the set.
C13_Witness ==
    /\ impl = "scan" /\ pc = "write_error" /\ stack = <<>>
    /\ last.op = "file" /\ ~last.seen
    /\ Len(last.path) = Len(RootPath) + 2
    /\ last.meta.ino \in visited_inodes
    /\ EventsFor(last.path) = {}
    /\ Cardinality(Idx({"FolderStart"})) = 2
    /\ Idx({"FolderEnd", "ScanInfoEnd", "RootEnd"}) = {}

IsXmlChar(c) ==
    c \in {9, 10, 13} \/ c \in 32..55295 \/ c \in 57344..65533 \/ c \in 65536..1114111
EscapedChar(c) ==
    IF c = 38 THEN <<38, 97, 109, 112, 59>>
    ELSE IF c = 60 THEN <<38, 108, 116, 59>>
    ELSE IF c = 62 THEN <<38, 103, 116, 59>>
    ELSE IF c = 34 THEN <<38, 113, 117, 111, 116, 59>>
    ELSE IF c = 39 THEN <<38, 97, 112, 111, 115, 59>>
    ELSE IF c \in {9, 10, 13} THEN <<c>>
    ELSE IF is_control(c) \/ ~IsXmlChar(c) THEN <<38, 35, 120>> \o UpperHex(c) \o <<59>>
    ELSE <<c>>
RECURSIVE EscapedText(_)
EscapedText(s) == IF s = <<>> THEN <<>> ELSE EscapedChar(Head(s)) \o EscapedText(Tail(s))

\* C15: sanitize_for_xml and xml_escape turn every string into the
\* concatenation, character by character, of: the entity of & < > " ';
\* the character itself for TAB, LF and CR; &#xH; (upper-case hexadecimal)
\* for every other control character and every code point that is not an
\* XML character; the character itself otherwise.
C15_EscapePerCharacter ==
    (ret.done /\ call.fn \in {"sanitize_for_xml", "xml_escape"})
        => ret.val = EscapedText(call.arg)

\* C16: (xml_output.rs, run of filesystem.rs) a run that completes has
\* written, in this order and once each: the declaration with version
\* "1.0", the root start tag with appVersion "4" and formatVersion "7", the
\* ScanInfo start tag, the Folder tree of the root directory, the ScanInfo
\* end tag and the root end tag.
C16_DocumentOrder ==
    (impl # "main" /\ pc = "done") =>
        LET n == Len(out)
        IN  /\ n >= 7
            /\ out[1] = DeclEvent("1.0")
            /\ out[2] = [tag |-> "RootStart", appVersion |-> "4", formatVersion |-> "7"]
            /\ out[3].tag = "ScanInfoStart"
            /\ out[4].tag = "FolderStart" /\ out[4].path = RootPath
            /\ out[n - 2] = FolderEndEvent(RootPath)
            /\ out[n - 1].tag = "ScanInfoEnd"
            /\ out[n].tag = "RootEnd"
            /\ \A t \in {"Decl", "RootStart", "ScanInfoStart", "ScanInfoEnd", "RootEnd"} :
                  Cardinality(Idx({t})) = 1
            /\ Cardinality({i \in Idx({"FolderStart"}) : out[i].path = RootPath}) = 1
            /\ NestState(n).ok

\* The number a run of decimal digits stands for.
RECURSIVE Number(_)
Number(ds) == IF ds = <<>> THEN 0 ELSE 10 * Number(SubSeq(ds, 1, Len(ds) - 1)) + (ds[Len(ds)] - 48)

\* Whether t has the shape YYYY-MM-DDTHH:MM:SSZ with fields in range.
IsTimestamp(t) ==
    /\ Len(t) = 20
    /\ \A i \in {1, 2, 3, 4, 6, 7, 9, 10, 12, 13, 15, 16, 18, 19} : t[i] \in 48..57
    /\ t[5] = 45 /\ t[8] = 45 /\ t[11] = 84 /\ t[14] = 58 /\ t[17] = 58 /\ t[20] = 90
    /\ Number(SubSeq(t, 6, 7)) \in 1..12
    /\ Number(SubSeq(t, 9, 10)) \in 1..31
    /\ Number(SubSeq(t, 12, 13)) \in 0..23
    /\ Number(SubSeq(t, 15, 16)) \in 0..59
    /\ Number(SubSeq(t, 18, 19)) \in 0..59

\* The seconds from the Unix epoch of the UTC time a timestamp names.
SecondsOf(t) ==
    LET m == Number(SubSeq(t, 6, 7))
        d == Number(SubSeq(t, 9, 10))
        y == Number(SubSeq(t, 1, 4)) - (IF m <= 2 THEN 1 ELSE 0)
        era == y \div 400
        yoe == y - era * 400
        doy == (153 * (IF m > 2 THEN m - 3 ELSE m + 9) + 2) \div 5 + d - 1
        doe == yoe * 365 + yoe \div 4 - yoe \div 100 + doy
        days == era * 146097 + doe - 719468
    IN  days * 86400 + Number(SubSeq(t, 12, 13)) * 3600
            + Number(SubSeq(t, 15, 16)) * 60 + Number(SubSeq(t, 18, 19))

\* C17: get_file_times always returns three strings; each of them is, on
\* its own, a timestamp YYYY-MM-DDTHH:MM:SSZ naming the UTC time the
\* metadata supplied, or "1970-01-01T00:00:00Z" when the metadata has no
\* such time.
C17_TimestampsOrDefault ==
    (ret.done /\ call.fn = "get_file_times") =>
        \A i \in 1..3 :
            IF call.arg[i].ok
            THEN IsTimestamp(ret.val[i]) /\ SecondsOf(ret.val[i]) = call.arg[i].secs
            ELSE ret.val[i] = <<49, 57, 55, 48, 45, 48, 49, 45, 48, 49, 84,
                                48, 48, 58, 48, 48, 58, 48, 48, 90>>

\* No creation time, a modification on 2000-02-29 and an access one second
\* before the epoch: "2000-02-29T00:00:00Z" and "1969-12-31T23:59:59Z".
C17_Witness ==
    /\ ret.done /\ call.fn = "get_file_times"
    /\ call.arg = <<ErrTime, OkTime(951782400), OkTime(-1)>>
    /\ ret.val[1] = DEFAULT_DATETIME
    /\ ret.val[2] = <<50, 48, 48, 48, 45, 48, 50, 45, 50, 57, 84, 48, 48, 58, 48, 48, 58, 48, 48, 90>>
    /\ ret.val[3] = <<49, 57, 54, 57, 45, 49, 50, 45, 51, 49, 84, 50, 51, 58, 53, 57, 58, 53, 57, 90>>

\* The final segment of a path as text (bytes that are not UTF-8 read as
\* U+FFFD).
BaseNameText(p) == [i \in 1..Len(p[Len(p)]) |-> IF p[Len(p)][i] < 128 THEN p[Len(p)][i] ELSE 65533]

\* C18: the Folder start tag of the root directory has the directory
\* argument, as given, as its name; the Folder start tag of every other
\* directory and every File event has the text of the final segment of the
\* path of its entry as its name.
C18_RootFullPathOthersBaseName ==
    /\ \A i \in Idx({"FolderStart"}) :
          out[i].name = IF out[i].path = RootPath THEN directory ELSE BaseNameText(out[i].path)
    /\ \A i \in Idx({"File"}) : out[i].name = BaseNameText(out[i].path)

\* A completed scan with the root Folder, a Folder below it and a File in
\* that Folder.
C18_Witness ==
    /\ pc = "done" /\ impl = "scan"
    /\ \E i \in Idx({"FolderStart"}) : out[i].path = RootPath /\ out[i].name = <<116, 47, 114>>
    /\ \E i \in Idx({"FolderStart"}) : Len(out[i].path) = Len(RootPath) + 1 /\ out[i].name = <<97>>
    /\ \E i \in Idx({"File"}) : Len(out[i].path) = Len(RootPath) + 2 /\ out[i].name = <<97>>

\* C19: two runs over the same unmodified tree write the same output (the
\* scan time apart) whatever the order in which the file system lists a
\* directory.  The walker is a function of what it reads, and the reads of
\* two runs differ in the order of the listings only, so the runs write the
\* same output exactly when they go through every directory in the same
\* order: the order of the entries after sort_by is the same in both runs.
C19_SameOrderInBothRuns ==
    (ret.done /\ call.fn = "read_directory") => ret.val[1] = ret.val[2]

\* C20: Options::from_matches gives gzip for an output file unless --no-gzip
\* is given, whatever the name of the file, no compression for standard
\* output unless --gzip is given, and the compression level 6 unless a
\* level is given.
C20_CompressionResolution ==
    (ret.done /\ call.fn = "from_matches") =>
        /\ call.arg.output.some =>
              ret.val.compression_type = (IF call.arg.no_gzip THEN "None" ELSE "Gzip")
        /\ ~call.arg.output.some =>
              ret.val.compression_type = (IF call.arg.gzip THEN "Gzip" ELSE "None")
        /\ ~call.arg.compression_level.some => ret.val.compression_level = 6
        /\ call.arg.compression_level.some =>
              ret.val.compression_level = call.arg.compression_level.val

\* --output foo.xml without a compression flag or level: gzip, level 6.
C20_Witness ==
    /\ ret.done /\ call.fn = "from_matches"
    /\ call.arg.output = Some(<<102, 111, 111, 46, 120, 109, 108>>)
    /\ ~call.arg.no_gzip /\ ~call.arg.gzip /\ ~call.arg.compression_level.some
    /\ ret.val.compression_type = "Gzip"
    /\ ret.val.compression_level = 6
    /\ ret.val.output_filename = Some(<<102, 111, 111, 46, 120, 109, 108, 46, 103, 112, 115, 99, 97, 110>>)

\* The file names process_output_filename treats as a file: no separator at
\* the end and a file-name component (Path::file_name is never "." or "..").
FileLike(n) ==
    ~ends_with(n, <<47>>) /\ ~ends_with(n, <<92>>) /\ path_file_name(n).some

OnlyDots(s) == \A i \in 1..Len(s) : s[i] = 46

\* "..gpscan"
DotGpscanExt == <<46>> \o GpscanExt

NameCallDone == ret.done /\ call.fn = "process_output_filename"

\* C21: a file-like output name is resolved to the same directory part and
\* to the file name with its trailing dots trimmed and ".gpscan" appended,
\* or is returned unchanged when the file name already ends in ".gpscan";
\* a directory-like name is returned unchanged; a resolved file-like name
\* ends in ".gpscan" and never in "..gpscan".
C21_ResolvedName ==
    NameCallDone =>
        LET n == call.arg
            r == ret.val
            fname == path_file_name(n).val
        IN  IF ~FileLike(n) THEN r = n
            ELSE /\ ends_with(fname, GpscanExt) => r = n
                 /\ ~ends_with(fname, GpscanExt) =>
                        /\ path_parent(r) = path_parent(n)
                        /\ path_file_name(r) = Some(trim_dots(fname) \o GpscanExt)
                 /\ ends_with(r, GpscanExt)
                 /\ ~ends_with(r, DotGpscanExt)

\* C21 with the two cases the code keeps as they are: a file name made of
\* dots only is returned unchanged, and a name that already ends in
\* ".gpscan" keeps a dot before it.
C21_ResolvedNameUnlessDots ==
    NameCallDone =>
        LET n == call.arg
            r == ret.val
            fname == path_file_name(n).val
        IN  IF ~FileLike(n) THEN r = n
            ELSE IF ends_with(fname, GpscanExt) \/ OnlyDots(fname) THEN r = n
            ELSE /\ path_parent(r) = path_parent(n)
                 /\ path_file_name(r) = Some(trim_dots(fname) \o GpscanExt)
                 /\ ends_with(r, GpscanExt)
                 /\ ~ends_with(r, DotGpscanExt)

\* "d/foo." is resolved to "d/foo.gpscan".
C21_Witness ==
    /\ NameCallDone
    /\ call.arg = <<100, 47, 102, 111, 111, 46>>
    /\ ret.val = <<100, 47, 102, 111, 111>> \o GpscanExt

\* The disks of a lookup whose mount point is a path-prefix of the root.
Containing(a) ==
    {i \in 1..Len(a.disks) :
        starts_with(abs_root_path(a.root_path, a.canonical), a.disks[i].mount_point)}

\* C22: the volume lookup returns the mount path, total bytes and free bytes
\* of the disk with the most path components among those whose mount point
\* is a prefix of the canonicalized root, and ("/", 0, 0) when there is none.
C22_DeepestContainingVolume ==
    (ret.done /\ call.fn \in {"get_volume_info", "main_get_volume_info"}) =>
        LET a == call.arg
            M == Containing(a)
        IN  IF M = {} THEN ret.val = << <<47>>, 0, 0 >>
            ELSE \E i \in M :
                    /\ \A j \in M : components_count(a.disks[j].mount_point)
                                        <= components_count(a.disks[i].mount_point)
                    /\ ret.val = << path_text(a.disks[i].mount_point),
                                    a.disks[i].total_space, a.disks[i].available_space >>

\* a < b for two numbers of as many digits.
RECURSIVE Less(_, _)
Less(a, b) ==
    IF a = <<>> THEN FALSE
    ELSE LET n == Len(a)
         IN  a[n] < b[n] \/ (a[n] = b[n] /\ Less(SubSeq(a, 1, n - 1), SubSeq(b, 1, n - 1)))

\* C23: the size function returns the logical length when the flag is true;
\* when it is false, the block count times 512 on the Unix-like platforms,
\* and on Windows the length rounded up to a multiple of 4096 (0 stays 0):
\* a multiple of 4096, at least the length and less than the length plus
\* 4096, never a wrapped value.
C23_SizeFunction ==
    (ret.done /\ call.fn \in {"unix_file_size", "windows_file_size"}) =>
        /\ ~ret.val.panicked
        /\ LET a == call.arg
                r == ret.val.value
            IN  IF a.apparent THEN r = a.len
                ELSE IF call.fn = "unix_file_size" THEN r \o <<0>> = MulDigits(a.blocks, 512, 0)
                ELSE /\ r[1] = 0
                     /\ ~Less(r, a.len)
                     /\ Less(r \o <<0>>, AddDigits(a.len, Base))
                     /\ a.len = U64(0) => r = U64(0)

\* Whether the paths ps are in the order of the sort: no final segment
\* compares greater than the next one.
InSortOrder(ps) ==
    \A i \in 1..Len(ps) - 1 :
        entry_cmp(ps[i][Len(ps[i])], ps[i + 1][Len(ps[i + 1])]) # "Greater"

FilePaths(f) == [i \in 1..Len(f.file_entries) |-> f.file_entries[i].path]

\* C24: with the walker of scan.rs the files of a directory are processed
\* in sorted order and all before its first subdirectory is entered, the
\* subdirectories are entered in sorted order, and the File event of an
\* inode is written for the entry processed first: an entry whose inode was
\* processed before writes nothing.
C24_FirstLinkWins ==
    [][impl = "scan" =>
        /\ \A i \in 1..Len(stack') :
              /\ InSortOrder(FilePaths(stack'[i]))
              /\ InSortOrder(stack'[i].dir_entries)
              /\ stack'[i].phase \in {"dirs", "close"} =>
                    (stack'[i].file_entries = <<>> /\ stack'[i].entries = <<>>)
              /\ i < Len(stack') => stack'[i].phase \in {"dirs", "close"}
        /\ (pc = "walk" /\ stack # <<>> /\ top.phase = "files") =>
              LET fe == Head(top.file_entries)
                  size == ActiveSize(fe.meta)
              IN  /\ last' = FileLast(fe.path, fe.meta)
                  /\ visited_inodes' = visited_inodes \cup {fe.meta.ino}
                  /\ \A i \in Idx({"File"}) : out[i].ino \in visited_inodes
                  /\ IF fe.meta.ino \in visited_inodes THEN out' = out /\ pc' = pc
                     ELSE IF size = 0 /\ ~options.include_zero_files THEN out' = out
                     ELSE pc' # "write_error" =>
                              out' = Append(out, FileEvent(fe.path, size, fe.meta.ino))
        /\ (pc = "walk" /\ stack # <<>> /\ top.phase = "dirs") =>
              /\ Len(stack') = Len(stack) + 1
              /\ stack'[Len(stack')].path = Head(top.dir_entries)
              /\ out' = out]_vars

\* A file of the root has been written and a link to its inode, found in a
\* subdirectory, has just been suppressed.
C24_Witness ==
    /\ impl = "scan"
    /\ last.op = "file" /\ last.seen
    /\ Len(last.path) = Len(RootPath) + 2
    /\ EventsFor(last.path) = {}
    /\ \E i \in Idx({"File"}) :
          out[i].ino = last.meta.ino /\ Len(out[i].path) = Len(RootPath) + 1

\* No directory has been entered twice: the Folder start tags are those of
\* different paths.
EnteredOnce ==
    \A i, j \in Idx({"FolderStart"}) : out[i].path = out[j].path => i = j

\* The root call has returned and the end tags of ScanInfo and of the root
\* element are the last events written.
ClosedAfterReturn ==
    /\ pc = "done" /\ stack = <<>>
    /\ Len(out) >= 2
    /\ out[Len(out) - 1] = ScanInfoEndEvent
    /\ out[Len(out)] = RootEndEvent

\* C25: the scan of a finite tree terminates: once the walker is called on
\* the root, the root call returns and the end tags of ScanInfo and of the
\* root element are written (or a failed write ends the run); no directory
\* is entered twice.
C25_ScanTerminates ==
    /\ []EnteredOnce
    /\ (pc = "walk") ~> ((pc = "write_error" /\ stack = <<>>) \/ ClosedAfterReturn)

\* A completed scan of scan.rs that entered the root and one subdirectory.
C25_Witness ==
    /\ impl = "scan"
    /\ ClosedAfterReturn
    /\ Cardinality(Idx({"FolderStart"})) = 2

\* The ways a directory invocation ends in a skip, read from the inputs of
\* the step l: metadata unreadable, foreign device with cross_mount_points
\* off, listing unreadable, no entry with include_empty_folders off.
EndsInSkip(l) ==
    \/ ~l.meta_ok
    \/ l.foreign /\ ~options.cross_mount_points
    \/ ~l.list_ok
    \/ l.n = 0 /\ ~options.include_empty_folders

\* C26: a directory invocation that ends in a skip writes no event, examines
\* no child entry (it returns at once) and leaves the inode set as it was.
C26_SkipLeavesNoTrace ==
    [][(/\ pc = "walk" /\ stack # <<>> /\ top.phase = "enter"
        /\ last'.op = "enter" /\ EndsInSkip(last'))
       => (/\ out' = out
           /\ visited_inodes' = visited_inodes
           /\ stack' = Below
           /\ pc' # "write_error")]_vars

\* The value of a hexadecimal digit, and of a sequence of them.
HexValue(d) == IF d \in 48..57 THEN d - 48 ELSE d - 55
RECURSIVE HexNumber(_)
HexNumber(ds) ==
    IF ds = <<>> THEN 0 ELSE 16 * HexNumber(SubSeq(ds, 1, Len(ds) - 1)) + HexValue(ds[Len(ds)])

\* The position of the first ';' of s, or 0.
RECURSIVE Semicolon(_, _)
Semicolon(s, i) == IF i > Len(s) THEN 0 ELSE IF s[i] = 59 THEN i ELSE Semicolon(s, i + 1)

\* The character a reference stands for (the text between '&' and ';').
Referenced(r) ==
    IF r = <<97, 109, 112>> THEN <<38>>
    ELSE IF r = <<108, 116>> THEN <<60>>
    ELSE IF r = <<103, 116>> THEN <<62>>
    ELSE IF r = <<113, 117, 111, 116>> THEN <<34>>
    ELSE IF r = <<97, 112, 111, 115>> THEN <<39>>
    ELSE IF Len(r) > 2 /\ r[1] = 35 /\ r[2] = 120 THEN <<HexNumber(SubSeq(r, 3, Len(r)))>>
    ELSE <<38>> \o r \o <<59>>

\* What an XML reader makes of an attribute value: every entity and
\* character reference resolved, once.
RECURSIVE Resolved(_)
Resolved(s) ==
    IF s = <<>> THEN <<>>
    ELSE IF Head(s) = 38 /\ Semicolon(s, 1) # 0
         THEN Referenced(SubSeq(s, 2, Semicolon(s, 1) - 1))
                  \o Resolved(SubSeq(s, Semicolon(s, 1) + 1, Len(s)))
         ELSE <<Head(s)>> \o Resolved(Tail(s))

\* C27: the name attribute written for a name is the name escaped exactly
\* once: resolving its references a single time yields the name.
C27_NameEscapedOnce ==
    (ret.done /\ call.fn \in {"name_attribute", "main_name_attribute"}) =>
        Resolved(ret.val) = call.arg

\* C28: with the walkers of scan.rs and filesystem.rs the inode set is
\* empty when the walker is called on the root, only grows, and grows by
\* the inode of every regular file processed and by nothing else; a regular
\* file is suppressed exactly when its inode is in the set, whatever the
\* device and the directory of the file and whether or not the earlier
\* file was written.
C28_SuppressionByInodeAlone ==
    [][impl # "main" =>
        /\ pc = "scaninfo" => visited_inodes' = {}
        /\ pc = "walk" => visited_inodes \subseteq visited_inodes'
        /\ (pc = "walk" /\ ~(last'.op = "file" /\ last' # last)) =>
              visited_inodes' = visited_inodes
        /\ (pc = "walk" /\ last'.op = "file" /\ last' # last) =>
              LET m == last'.meta
                  size == ActiveSize(m)
              IN  /\ visited_inodes' = visited_inodes \cup {m.ino}
                  /\ IF m.ino \in visited_inodes THEN out' = out /\ pc' = pc
                     ELSE IF size = 0 /\ ~options.include_zero_files THEN out' = out /\ pc' = pc
                     ELSE \/ pc' = "write_error" /\ out' = out
                          \/ out' = Append(out, FileEvent(last'.path, size, m.ino))]_vars

\* A file in a directory on another device has just been suppressed: its
\* inode is that of an earlier file the zero-size filter had omitted.
C28_Witness ==
    /\ impl # "main"
    /\ last.op = "file" /\ last.seen
    /\ last.dev # root_dev
    /\ last.meta.ino = 2
    /\ ~options.apparent_size /\ ~options.include_zero_files
    /\ Idx({"File"}) = {}
    /\ pc = "walk"

\* C29: the step that finds an entry to be neither a regular file, nor a
\* directory, nor a symbolic link writes no event, starts no call for it,
\* keeps it in no list, leaves the inode set as it was, and leaves the
\* walker in the same directory with the entries that follow still to do.
C29_OtherTypesIgnored ==
    [][(/\ pc = "walk" /\ stack # <<>>
        /\ last'.op = "classify" /\ last' # last
        /\ last'.meta.ok /\ last'.meta.kind = "other")
       => (/\ out' = out
           /\ visited_inodes' = visited_inodes
           /\ pc' = pc
           /\ Len(stack') = Len(stack)
           /\ ~Queued(last'.path, stack')
           /\ stack'[Len(stack')].path = top.path
           /\ stack'[Len(stack')].entries = Tail(top.entries)
           /\ stack'[Len(stack')].file_entries = top.file_entries
           /\ stack'[Len(stack')].dir_entries = top.dir_entries)]_vars

\* An entry of another type has just been passed over, and the entry that
\* follows it in the directory is still to be processed.
C29_Witness ==
    /\ pc = "walk" /\ stack # <<>>
    /\ last.op = "classify" /\ last.meta.ok /\ last.meta.kind = "other"
    /\ top.path = Parent(last.path)
    /\ top.entries # <<>>
    /\ EventsFor(last.path) = {}

\* The Folder start tags and File events that are children of ScanInfo:
\* those written while no Folder is open.
TopLevel == {i \in Idx({"FolderStart", "File"}) : NestState(i - 1).open = <<>>}

\* C30: when a run of scan.rs or filesystem.rs that passed the start-up
\* checks writes its end tags without a write error, either the root
\* directory was skipped (unreadable, or without entries while
\* include_empty_folders is off) and ScanInfo has no child, or ScanInfo has
\* one child, the Folder of the root, closed before the end tags; in both
\* cases the end tags close the document and the run succeeds.
C30_OneRootFolderOrNone ==
    [][(impl # "main" /\ pc = "close" /\ pc' = "done") =>
        /\ out' = out \o <<ScanInfoEndEvent, RootEndEvent>>
        /\ stack' = <<>>
        /\ IF last.op = "enter"
           THEN /\ last.is_root /\ EndsInSkip(last)
                /\ out = HeaderEvents \o <<ScanInfoStartEvent(fileSizeMeasure)>>
           ELSE /\ Cardinality(TopLevel) = 1
                /\ \A i \in TopLevel :
                      /\ i = Len(HeaderEvents) + 2
                      /\ out[i].tag = "FolderStart" /\ out[i].path = RootPath
                /\ NestState(Len(out)).ok /\ NestState(Len(out)).open = <<>>
                /\ out[Len(out)] = FolderEndEvent(RootPath)
                /\ SubSeq(out, 1, Len(HeaderEvents) + 1)
                      = HeaderEvents \o <<ScanInfoStartEvent(fileSizeMeasure)>>]_vars

\* A run whose root directory could not be listed has closed its document:
\* ScanInfo is empty.
C30_Witness ==
    /\ impl # "main" /\ pc = "done"
    /\ last.op = "enter" /\ last.is_root /\ last.meta_ok /\ ~last.list_ok
    /\ out = HeaderEvents \o <<ScanInfoStartEvent(fileSizeMeasure), ScanInfoEndEvent, RootEndEvent>>

====
